---- MODULE Spec2Model ----
(***************************************************************************)
(* Model of src/app.py: the JSON corpus loader (load_and_parse_json,       *)
(* load_survey_json, load_context), the module-level start-up that builds  *)
(* FULL_INTERVIEW_CONTEXT and SYSTEM_INSTRUCTION, and the /chat handler.   *)
(*                                                                         *)
(* Representation.  File names, paths, JSON keys and JSON strings are      *)
(* sequences of one-character strings, so that substring tests, basename,  *)
(* sorting and upper() are computed character by character.  A Python str  *)
(* that the program builds as output is a Text: the non-empty sequence of  *)
(* its lines (what str.split("\n") returns), each line a TLA+ string; the  *)
(* empty str is <<"">>.  The characters of the model never include a line  *)
(* break, so a formatted value is always one line.                         *)
(* A call that may raise returns [exc |-> BOOLEAN, val |-> ...].           *)
(***************************************************************************)
EXTENDS Integers, Sequences, FiniteSets, TLC

VARIABLES
    cwd,                    \* os.getcwd(): the root directory, a character sequence
    fs,                     \* the directory's entries: file name -> file
    pc,                     \* position of the process / of the function under test
    client,                 \* module global client: "None" or "Client"
    FULL_INTERVIEW_CONTEXT, \* module global, a Text
    SYSTEM_INSTRUCTION,     \* module global, a Text
    load,                   \* what the last load_context() call did and returned
    ret,                    \* what the last direct renderer call returned
    calls,                  \* generate_content calls made so far, in order
    inflight,               \* /chat requests waiting in generate_content
    replies                 \* the replies sent so far, in order

vars == <<cwd, fs, pc, client, FULL_INTERVIEW_CONTEXT, SYSTEM_INSTRUCTION,
          load, ret, calls, inflight, replies>>

\* ------------------------------------------------------------------ bounds
MaxFiles == 3
MaxRecords == 2
MaxSections == 2
MaxRequests == 2

\* ------------------------------------------------ characters and sequences
CharCode ==
    ("-" :> 45) @@ ("." :> 46) @@ ("/" :> 47) @@ ("1" :> 49) @@ ("?" :> 63) @@
    ("A" :> 65) @@ ("B" :> 66) @@ ("C" :> 67) @@ ("D" :> 68) @@ ("E" :> 69) @@
    ("F" :> 70) @@ ("G" :> 71) @@ ("H" :> 72) @@ ("I" :> 73) @@ ("J" :> 74) @@
    ("K" :> 75) @@ ("L" :> 76) @@ ("M" :> 77) @@ ("N" :> 78) @@ ("O" :> 79) @@
    ("P" :> 80) @@ ("Q" :> 81) @@ ("R" :> 82) @@ ("S" :> 83) @@ ("T" :> 84) @@
    ("U" :> 85) @@ ("V" :> 86) @@ ("W" :> 87) @@ ("X" :> 88) @@ ("Y" :> 89) @@
    ("Z" :> 90) @@ ("_" :> 95) @@ ("a" :> 97) @@ ("b" :> 98) @@ ("c" :> 99) @@
    ("d" :> 100) @@ ("e" :> 101) @@ ("f" :> 102) @@ ("g" :> 103) @@ ("h" :> 104) @@
    ("i" :> 105) @@ ("j" :> 106) @@ ("k" :> 107) @@ ("l" :> 108) @@ ("m" :> 109) @@
    ("n" :> 110) @@ ("o" :> 111) @@ ("p" :> 112) @@ ("q" :> 113) @@ ("r" :> 114) @@
    ("s" :> 115) @@ ("t" :> 116) @@ ("u" :> 117) @@ ("v" :> 118) @@ ("w" :> 119) @@
    ("x" :> 120) @@ ("y" :> 121) @@ ("z" :> 122)

\* str.upper() on one character.
UpperChar(c) ==
    IF CharCode[c] >= CharCode["a"] /\ CharCode[c] <= CharCode["z"]
    THEN CHOOSE u \in DOMAIN CharCode : CharCode[u] = CharCode[c] - 32
    ELSE c

\* The TLA+ string spelled by a character sequence.
RECURSIVE Str(_)
Str(s) == IF s = <<>> THEN "" ELSE Head(s) \o Str(Tail(s))

\* Python's `sub in s` on str.
Contains(sub, s) ==
    \E i \in 1..(Len(s) - Len(sub) + 1) : SubSeq(s, i, i + Len(sub) - 1) = sub

EndsWith(s, suf) ==
    Len(s) >= Len(suf) /\ SubSeq(s, Len(s) - Len(suf) + 1, Len(s)) = suf

\* Python's `a < b` on str: by code point, a proper prefix first.
RECURSIVE LexLess(_, _)
LexLess(a, b) ==
    IF b = <<>> THEN FALSE
    ELSE IF a = <<>> THEN TRUE
    ELSE IF CharCode[Head(a)] < CharCode[Head(b)] THEN TRUE
    ELSE IF CharCode[Head(a)] > CharCode[Head(b)] THEN FALSE
    ELSE LexLess(Tail(a), Tail(b))

\* ---------------------------------------------------------------- Text
EmptyStr == <<"">>
NL == <<"", "">>
NLNL == <<"", "", "">>

\* s + t on str.
StrCat(s, t) ==
    SubSeq(s, 1, Len(s) - 1) \o <<s[Len(s)] \o t[1]>> \o Tail(t)

\* sep.join(parts)
RECURSIVE Join(_, _)
Join(sep, parts) ==
    IF parts = <<>> THEN EmptyStr
    ELSE IF Len(parts) = 1 THEN parts[1]
    ELSE StrCat(StrCat(parts[1], sep), Join(sep, Tail(parts)))

\* ---------------------------------------------------------- JSON values
JNull == [t |-> "null"]
JBool(b) == [t |-> "bool", b |-> b]
JNum(n) == [t |-> "num", n |-> n]
JStr(s) == [t |-> "str", s |-> s]
JArr(items) == [t |-> "arr", items |-> items]
\* kv: the mapping's (key, value) pairs in the order of the file.
JObj(kv) == [t |-> "obj", kv |-> kv]

isinstance_list(v) == v.t = "arr"
isinstance_dict(v) == v.t = "obj"

\* key in d, d[key], d.get(key, default) on a dict.
HasKey(d, key) == \E i \in 1..Len(d.kv) : d.kv[i][1] = key
Lookup(d, key) == d.kv[CHOOSE i \in 1..Len(d.kv) : d.kv[i][1] = key][2]
Get(d, key, default) == IF HasKey(d, key) THEN Lookup(d, key) ELSE default

KEY_SPEAKER == <<"s", "p", "e", "a", "k", "e", "r">>
KEY_QUESTION == <<"q", "u", "e", "s", "t", "i", "o", "n">>
KEY_ANSWER == <<"a", "n", "s", "w", "e", "r">>
KEY_SURVEY_SUMMARY ==
    <<"s", "u", "r", "v", "e", "y", "_", "s", "u", "m", "m", "a", "r", "y">>
KEY_FREE_TEXT_INSIGHTS ==
    <<"f", "r", "e", "e", "_", "t", "e", "x", "t", "_",
      "i", "n", "s", "i", "g", "h", "t", "s">>

RECURSIVE Spaces(_)
Spaces(n) == IF n = 0 THEN "" ELSE " " \o Spaces(n - 1)

\* Suffix the last line / prefix the first line of a Text.
WithSuffix(text, suf) == [text EXCEPT ![Len(text)] = @ \o suf]
WithPrefix(text, pre) == [text EXCEPT ![1] = pre \o @]

\* json.dumps(v, indent=2), as the lines of the result; `level` is the
\* nesting depth of v.
RECURSIVE Dumps(_, _)
RECURSIVE DumpMembers(_, _, _)
DumpMembers(v, level, i) ==
    LET n == IF v.t = "arr" THEN Len(v.items) ELSE Len(v.kv)
        member == IF v.t = "arr"
                  THEN Dumps(v.items[i], level + 1)
                  ELSE WithPrefix(Dumps(v.kv[i][2], level + 1),
                                  "\"" \o Str(v.kv[i][1]) \o "\": ")
        line == WithPrefix(member, Spaces(2 * (level + 1)))
    IN  IF i > n THEN <<>>
        ELSE IF i = n THEN line
        ELSE WithSuffix(line, ",") \o DumpMembers(v, level, i + 1)
Dumps(v, level) ==
    CASE v.t = "null" -> <<"null">>
      [] v.t = "bool" -> <<IF v.b THEN "true" ELSE "false">>
      [] v.t = "num" -> <<ToString(v.n)>>
      [] v.t = "str" -> <<"\"" \o Str(v.s) \o "\"">>
      [] v.t = "arr" ->
            IF v.items = <<>> THEN <<"[]">>
            ELSE <<"[">> \o DumpMembers(v, level, 1)
                         \o <<Spaces(2 * level) \o "]">>
      [] v.t = "obj" ->
            IF v.kv = <<>> THEN <<"{}">>
            ELSE <<"{">> \o DumpMembers(v, level, 1)
                         \o <<Spaces(2 * level) \o "}">>

\* repr(v) and str(v) of a value json.load returned (one line).
RECURSIVE PyRepr(_)
RECURSIVE ReprMembers(_, _)
ReprMembers(v, i) ==
    LET n == IF v.t = "arr" THEN Len(v.items) ELSE Len(v.kv)
        member == IF v.t = "arr" THEN PyRepr(v.items[i])
                  ELSE "'" \o Str(v.kv[i][1]) \o "': " \o PyRepr(v.kv[i][2])
    IN  IF i > n THEN ""
        ELSE IF i = n THEN member
        ELSE member \o ", " \o ReprMembers(v, i + 1)
PyRepr(v) ==
    CASE v.t = "null" -> "None"
      [] v.t = "bool" -> IF v.b THEN "True" ELSE "False"
      [] v.t = "num" -> ToString(v.n)
      [] v.t = "str" -> "'" \o Str(v.s) \o "'"
      [] v.t = "arr" -> "[" \o ReprMembers(v, 1) \o "]"
      [] v.t = "obj" -> "{" \o ReprMembers(v, 1) \o "}"

\* What an f-string's {v} inserts: str(v).
PyStr(v) == IF v.t = "str" THEN Str(v.s) ELSE PyRepr(v)

\* ------------------------------------------------------------ file system
\* A directory entry: k = "unreadable" (open() raises OSError),
\* "malformed" (json.load raises), or "json" with the parsed value v.
Unreadable == [k |-> "unreadable", v |-> JNull]
Malformed == [k |-> "malformed", v |-> JNull]
JsonFile(v) == [k |-> "json", v |-> v]

SEP == <<"/">>
EXT_JSON == <<".", "j", "s", "o", "n">>

\* os.path.join(directory, name)
PathJoin(directory, name) ==
    IF EndsWith(directory, SEP) THEN directory \o name
    ELSE directory \o SEP \o name

\* os.path.basename(path): what follows the last separator.
RECURSIVE Basename(_)
Basename(path) ==
    IF ~Contains(SEP, path) THEN path
    ELSE Basename(Tail(path))

\* glob.glob(os.path.join(directory, "*.json")): the entries of the directory
\* whose name ends in ".json" and does not start with a dot.
Glob(fsys, directory) ==
    {PathJoin(directory, n) :
        n \in {m \in DOMAIN fsys : EndsWith(m, EXT_JSON) /\ Head(m) # "."}}

\* sorted(paths, reverse=True): the mutation of Sorted.
RECURSIVE SortedReverse(_)
SortedReverse(S) ==
    IF S = {} THEN <<>>
    ELSE LET hi == CHOOSE p \in S : \A q \in S \ {p} : LexLess(q, p)
         IN  <<hi>> \o SortedReverse(S \ {hi})
\* sorted(paths)
RECURSIVE Sorted(_)
Sorted(S) ==
    IF S = {} THEN <<>>
    ELSE LET lo == CHOOSE p \in S : \A q \in S \ {p} : LexLess(p, q)
         IN  <<lo>> \o Sorted(S \ {lo})

\* with open(path) as f: data = json.load(f)
JsonLoadFile(fsys, path) ==
    LET n == Basename(path)
    IN  IF n \notin DOMAIN fsys \/ fsys[n].k # "json"
        THEN [exc |-> TRUE, val |-> JNull]
        ELSE [exc |-> FALSE, val |-> fsys[n].v]

\* ------------------------------------------------- load_and_parse_json
\* `for entry in data`: the elements of a list, the keys of a dict, the
\* characters of a str; anything else is not iterable (TypeError).
Iterate(data) ==
    CASE data.t = "arr" -> [exc |-> FALSE, val |-> data.items]
      [] data.t = "obj" ->
            [exc |-> FALSE,
             val |-> [i \in 1..Len(data.kv) |-> JStr(data.kv[i][1])]]
      [] data.t = "str" ->
            [exc |-> FALSE, val |-> [i \in 1..Len(data.s) |-> JStr(<<data.s[i]>>)]]
      [] OTHER -> [exc |-> TRUE, val |-> <<>>]

InterviewHeader(path) ==
    <<"=== Interview File: " \o Str(Basename(path)) \o " ===">>

\* f"\n{speaker}:\nQ: {question}\nA: {answer}" with a missing speaker
\* rendered as the empty string: the mutation of RenderEntry.
RenderEntryNoDefault(entry) ==
    <<"",
      PyStr(Get(entry, KEY_SPEAKER, JStr(<<>>))) \o ":",
      "Q: " \o PyStr(Get(entry, KEY_QUESTION, JStr(<<>>))),
      "A: " \o PyStr(Get(entry, KEY_ANSWER, JStr(<<>>)))>>
\* f"\n{speaker}:\nQ: {question}\nA: {answer}"
RenderEntry(entry) ==
    <<"",
      PyStr(Get(entry, KEY_SPEAKER,
                JStr(<<"U", "n", "k", "n", "o", "w", "n">>))) \o ":",
      "Q: " \o PyStr(Get(entry, KEY_QUESTION, JStr(<<>>))),
      "A: " \o PyStr(Get(entry, KEY_ANSWER, JStr(<<>>)))>>

\* The loop of load_and_parse_json: one part per entry that is a dict.
RECURSIVE EntryParts(_)
EntryParts(entries) ==
    IF entries = <<>> THEN <<>>
    ELSE (IF isinstance_dict(Head(entries))
          THEN <<RenderEntry(Head(entries))>> ELSE <<>>)
         \o EntryParts(Tail(entries))

load_and_parse_json(fsys, file_path) ==
    LET r == JsonLoadFile(fsys, file_path)
        it == Iterate(r.val)
    IN  IF r.exc THEN EmptyStr
        ELSE IF it.exc THEN EmptyStr
        ELSE Join(NL, <<InterviewHeader(file_path)>> \o EntryParts(it.val))

\* ---------------------------------------------------- load_survey_json
\* `key in data`: a dict tests its keys, a list its elements, a str its
\* substrings; None, a number or a boolean raises TypeError.
KeyIn(key, data) ==
    CASE data.t = "obj" -> [exc |-> FALSE, val |-> HasKey(data, key)]
      [] data.t = "arr" ->
            [exc |-> FALSE,
             val |-> \E i \in 1..Len(data.items) : data.items[i] = JStr(key)]
      [] data.t = "str" -> [exc |-> FALSE, val |-> Contains(key, data.s)]
      [] OTHER -> [exc |-> TRUE, val |-> FALSE]

\* data[key].items(): the (key, value) pairs of the mapping under `key`;
\* raises when data is not a dict (TypeError) or data[key] is not one
\* (AttributeError).
ItemsOf(data, key) ==
    IF data.t = "obj" /\ HasKey(data, key) /\ Lookup(data, key).t = "obj"
    THEN [exc |-> FALSE, val |-> Lookup(data, key).kv]
    ELSE [exc |-> TRUE, val |-> <<>>]

SurveyHeader(path) ==
    <<"=== Survey Analytics File: " \o Str(Basename(path)) \o " ===">>

Upper(s) == [i \in 1..Len(s) |-> UpperChar(s[i])]

\* for section, values in data["survey_summary"].items(): two parts each.
RECURSIVE SectionParts(_)
SectionParts(kv) ==
    IF kv = <<>> THEN <<>>
    ELSE << <<"", "[" \o Str(Upper(Head(kv)[1])) \o "]">>,
            Dumps(Head(kv)[2], 0) >>
         \o SectionParts(Tail(kv))

\* for question, summary in data["free_text_insights"].items(): one part each.
RECURSIVE InsightParts(_)
InsightParts(kv) ==
    IF kv = <<>> THEN <<>>
    ELSE << <<"", "Q: " \o Str(Head(kv)[1]),
              "Summary: " \o PyStr(Head(kv)[2])>> >>
         \o InsightParts(Tail(kv))

\* One `if key in data:` block of load_survey_json: the parts it appends,
\* `parts` being those of the loop over data[key].items().
SurveyBlock(data, key, marker, parts) ==
    LET present == KeyIn(key, data)
        items == ItemsOf(data, key)
    IN  IF present.exc THEN [exc |-> TRUE, val |-> <<>>]
        ELSE IF ~present.val THEN [exc |-> FALSE, val |-> <<>>]
        ELSE IF items.exc THEN [exc |-> TRUE, val |-> <<>>]
        ELSE [exc |-> FALSE, val |-> << <<"", marker>> >> \o parts]

SummaryBlock(data) ==
    SurveyBlock(data, KEY_SURVEY_SUMMARY, "--- SURVEY SUMMARY ---",
                SectionParts(ItemsOf(data, KEY_SURVEY_SUMMARY).val))
InsightsBlock(data) ==
    SurveyBlock(data, KEY_FREE_TEXT_INSIGHTS, "--- FREE TEXT INSIGHTS ---",
                InsightParts(ItemsOf(data, KEY_FREE_TEXT_INSIGHTS).val))

\* The two blocks emitted in the order of the document's keys: the mutation
\* of SurveyBlocks.
SurveyBlocksInKeyOrder(data) ==
    LET a == SummaryBlock(data)
        b == InsightsBlock(data)
        swap == /\ data.t = "obj"
                /\ HasKey(data, KEY_SURVEY_SUMMARY)
                /\ HasKey(data, KEY_FREE_TEXT_INSIGHTS)
                /\ \E i, j \in 1..Len(data.kv) :
                      /\ i < j
                      /\ data.kv[i][1] = KEY_FREE_TEXT_INSIGHTS
                      /\ data.kv[j][1] = KEY_SURVEY_SUMMARY
    IN  IF a.exc \/ b.exc THEN [exc |-> TRUE, val |-> <<>>]
        ELSE [exc |-> FALSE,
              val |-> IF swap THEN b.val \o a.val ELSE a.val \o b.val]
\* The body of load_survey_json after the header: the summary block, then
\* the insights block; the first exception ends it.
SurveyBlocks(data) ==
    LET a == SummaryBlock(data)
        b == InsightsBlock(data)
    IN  IF a.exc \/ b.exc THEN [exc |-> TRUE, val |-> <<>>]
        ELSE [exc |-> FALSE, val |-> a.val \o b.val]

load_survey_json(fsys, file_path) ==
    LET r == JsonLoadFile(fsys, file_path)
        body == SurveyBlocks(r.val)
    IN  IF r.exc THEN EmptyStr
        ELSE IF body.exc THEN EmptyStr
        ELSE Join(NL, <<SurveyHeader(file_path)>> \o body.val)

\* ------------------------------------------------------------ load_context
PACKAGE == <<"p", "a", "c", "k", "a", "g", "e">>
LOCK == <<"l", "o", "c", "k">>

\* Skipping only a file called package.json: the mutation of SkipPath.
SkipPathExactName(path) ==
    Basename(path) = PACKAGE \o EXT_JSON
\* if "package" in path or "lock" in path: continue
SkipPath(path) ==
    Contains(PACKAGE, path) \/ Contains(LOCK, path)

\* Every dict taken for a survey document: the mutation of Dispatch.
DispatchAnyDict(data) ==
    IF isinstance_list(data) THEN "interview"
    ELSE IF isinstance_dict(data) THEN "survey"
    ELSE "none"
\* The if / elif of load_context: which renderer the parsed value goes to.
Dispatch(data) ==
    IF isinstance_list(data) THEN "interview"
    ELSE IF isinstance_dict(data)
            /\ (HasKey(data, KEY_SURVEY_SUMMARY)
                \/ HasKey(data, KEY_FREE_TEXT_INSIGHTS))
    THEN "survey"
    ELSE "none"

\* The exception re-raised instead of swallowed: the mutation of OnLoadError.
OnLoadErrorRaise(acc) == [acc EXCEPT !.escaped = TRUE]
\* except Exception as e: print(...); continue
OnLoadError(acc) == acc

\* One iteration of the for loop of load_context.  acc.parts is the list
\* `parts`, acc.opened the paths load_context has opened, acc.escaped
\* whether an exception left the loop.
ProcessPath(fsys, path, acc) ==
    LET r == JsonLoadFile(fsys, path)
        kind == Dispatch(r.val)
        opened == [acc EXCEPT !.opened = @ \cup {path}]
    IN  IF SkipPath(path) THEN acc
        ELSE IF r.exc THEN OnLoadError(opened)
        ELSE IF kind = "interview"
        THEN [opened EXCEPT
                !.parts = Append(@, load_and_parse_json(fsys, path))]
        ELSE IF kind = "survey"
        THEN [opened EXCEPT
                !.parts = Append(@, load_survey_json(fsys, path))]
        ELSE opened

RECURSIVE LoadLoop(_, _, _)
LoadLoop(fsys, paths, acc) ==
    IF paths = <<>> \/ acc.escaped THEN acc
    ELSE LoadLoop(fsys, Tail(paths), ProcessPath(fsys, Head(paths), acc))

\* load_context(): json_paths, the loop's trace, and the returned str
\* (value; returned is FALSE when an exception left the function instead).
load_context(fsys, directory) ==
    LET json_paths == Sorted(Glob(fsys, directory))
        acc == LoadLoop(fsys, json_paths,
                        [parts |-> <<>>, opened |-> {}, escaped |-> FALSE])
    IN  [json_paths |-> json_paths,
         parts |-> acc.parts,
         opened |-> acc.opened,
         returned |-> ~acc.escaped,
         value |-> IF acc.escaped THEN EmptyStr ELSE Join(NLNL, acc.parts)]

\* ------------------------------------------------ module-level start-up
\* SYSTEM_INSTRUCTION = f"""...{FULL_INTERVIEW_CONTEXT}...""" (lines 114-132)
PROMPT_HEAD ==
    <<"",
      "You are an analytical assistant, built to answer questions that cafe entreprenuers have when starting a new cafe. ",
      "You DO NOT just repeat or summarize the context provided.",
      "",
      "Your goals:",
      "1. Use the interview transcript contexts as background knowledge.",
      "2. Use the survey analytics as a customer perspective to cafe-going.",
      "3. Use both transcripts and survey to give holistic answers.",
      "4. Think beyond explicit text.",
      "5. Infer patterns, motives, insights, and deeper meanings.",
      "6. Provide thoughtful, evaluative, and analytical answers.",
      "7. If the user asks about something subjective (e.g., fonts, design decisions), use the context to think of an answer.",
      "",
      "Be concise, analytical, and insight-driven.",
      "",
      "--- INTERVIEW CONTEXT START ---",
      "">>
PROMPT_TAIL == <<"", "--- INTERVIEW CONTEXT END ---", "">>
SystemInstructionOf(context) == StrCat(StrCat(PROMPT_HEAD, context), PROMPT_TAIL)

NoLoad ==
    [json_paths |-> <<>>, parts |-> <<>>, opened |-> {},
     returned |-> FALSE, value |-> EmptyStr]
NoRet == [fn |-> "none", path |-> <<>>, value |-> EmptyStr]

\* Lines 112-132: FULL_INTERVIEW_CONTEXT = load_context(), then the prompt.
\* An exception leaving load_context would end the import (pc "crashed").
Startup ==
    /\ pc = "load"
    /\ load' = load_context(fs, cwd)
    /\ IF load'.returned
       THEN /\ FULL_INTERVIEW_CONTEXT' = load'.value
            /\ SYSTEM_INSTRUCTION' = SystemInstructionOf(load'.value)
            /\ pc' = "serving"
       ELSE /\ pc' = "crashed"
            /\ UNCHANGED <<FULL_INTERVIEW_CONTEXT, SYSTEM_INSTRUCTION>>
    /\ UNCHANGED <<cwd, fs, client, ret, calls, inflight, replies>>

\* --------------------------------------------------- inputs of the loader
DIR_ROOT == <<"/">>
DIR_D == <<"/", "d">>
DIR_BLOCK == <<"/", "b", "l", "o", "c", "k">>
Dirs == {DIR_ROOT, DIR_D, DIR_BLOCK}

N_A == <<"a">> \o EXT_JSON
N_B == <<"b">> \o EXT_JSON
N_PACKAGE_LOCK == PACKAGE \o <<"-">> \o LOCK \o EXT_JSON
N_UPPER_LOCK == <<"L", "o", "c", "k">> \o EXT_JSON
N_HIDDEN == <<".", "h">> \o EXT_JSON
N_TXT == <<"n", ".", "t", "x", "t">>
Names == {N_A, N_B, N_PACKAGE_LOCK, N_UPPER_LOCK, N_HIDDEN, N_TXT}

S_A == <<"A">>
S_WHY == <<"W", "h", "y", "?">>
S_OK == <<"o", "k">>
S_AGE == <<"a", "g", "e">>
S_18_25 == <<"1", "-", "1">>

E_FULL ==
    JObj(<< <<KEY_SPEAKER, JStr(S_A)>>, <<KEY_QUESTION, JStr(S_WHY)>>,
            <<KEY_ANSWER, JStr(S_OK)>> >>)
E_NO_SPEAKER == JObj(<< <<KEY_ANSWER, JStr(S_OK)>> >>)

V_SUMMARY == JObj(<< <<S_AGE, JObj(<< <<S_18_25, JNum(10)>> >>)>> >>)
V_INSIGHTS == JObj(<< <<S_WHY, JStr(S_OK)>> >>)

D_UNKNOWN == JObj(<< <<S_AGE, JNum(1)>> >>)
D_SURVEY ==
    JObj(<< <<KEY_FREE_TEXT_INSIGHTS, V_INSIGHTS>>,
            <<KEY_SURVEY_SUMMARY, V_SUMMARY>> >>)
D_SURVEY_BAD == JObj(<< <<KEY_SURVEY_SUMMARY, JArr(<<JNum(1)>>)>> >>)

LoadContents ==
    {Unreadable, Malformed,
     JsonFile(JNum(1)), JsonFile(D_UNKNOWN),
     JsonFile(JArr(<<>>)), JsonFile(JArr(<<E_FULL>>)),
     JsonFile(JArr(<<E_NO_SPEAKER, E_FULL>>)),
     JsonFile(D_SURVEY), JsonFile(D_SURVEY_BAD)}

Corpora(names, contents) ==
    UNION {[S -> contents] :
             S \in {T \in SUBSET names : Cardinality(T) <= MaxFiles}}

InitLoad ==
    /\ cwd \in Dirs
    /\ fs \in Corpora(Names, LoadContents)
    /\ pc = "load"
    /\ client = "Client"
    /\ FULL_INTERVIEW_CONTEXT = EmptyStr
    /\ SYSTEM_INSTRUCTION = EmptyStr
    /\ load = NoLoad
    /\ ret = NoRet
    /\ calls = <<>>
    /\ inflight = {}
    /\ replies = <<>>

SpecLoad == InitLoad /\ [][Startup]_vars

\* ===================================================== claims: the loader
\* The directory without the entry called n.
Without(fsys, n) == [m \in DOMAIN fsys \ {n} |-> fsys[m]]

\* The discovered paths that contain neither 'package' nor 'lock', in
\* discovery order.
Kept ==
    SelectSeq(load.json_paths,
              LAMBDA p : ~Contains(PACKAGE, p) /\ ~Contains(LOCK, p))

FileAt(p) == fs[Basename(p)]
IsInterviewFile(f) == f.k = "json" /\ f.v.t = "arr"
IsSurveyFile(f) ==
    /\ f.k = "json"
    /\ f.v.t = "obj"
    /\ \E i \in 1..Len(f.v.kv) :
          f.v.kv[i][1] \in {KEY_SURVEY_SUMMARY, KEY_FREE_TEXT_INSIGHTS}
IsValidInterviewFile(f) ==
    IsInterviewFile(f) /\ \A i \in 1..Len(f.v.items) : f.v.items[i].t = "obj"

\* What rendering the file at p yields: the renderer's str for a recognized
\* document, the empty str for every other file.
RenderedBlock(p) ==
    IF IsInterviewFile(FileAt(p)) THEN load_and_parse_json(fs, p)
    ELSE IF IsSurveyFile(FileAt(p)) THEN load_survey_json(fs, p)
    ELSE EmptyStr

\* A file that fails: unreadable, malformed, of unknown shape, or a
\* recognized document whose rendering fails.
Fails(p) == RenderedBlock(p) = EmptyStr

\* C1: load_context always returns a str, no exception leaves it, and every
\* discovered, non-excluded file that renders to a non-empty block has that
\* block among the collected parts, whatever the other files are.
C1_LoadContextTotal ==
    pc # "load" =>
        /\ pc = "serving"
        /\ load.returned
        /\ Len(load.value) >= 1
        /\ FULL_INTERVIEW_CONTEXT = load.value
        /\ \A i \in 1..Len(Kept) :
              ~Fails(Kept[i]) =>
                 \E j \in 1..Len(load.parts) :
                    load.parts[j] = RenderedBlock(Kept[i])

\* A failing file between two files that contribute their blocks.
C1_Witness ==
    /\ pc = "serving"
    /\ Len(Kept) = 3
    /\ FileAt(Kept[2]) = Malformed
    /\ ~Fails(Kept[1]) /\ ~Fails(Kept[3])
    /\ Len(load.parts) = 2

\* C2: the Context is the blank-line join of exactly the non-empty rendered
\* blocks, in discovery order; an empty rendering adds neither text nor a
\* separator.
C2_JoinOfNonEmptyBlocks ==
    pc = "serving" =>
        load.value =
            Join(NLNL,
                 SelectSeq([i \in 1..Len(Kept) |-> RenderedBlock(Kept[i])],
                           LAMBDA b : b # EmptyStr))

\* The 4 lines a record contributes: a blank line, '<speaker>:', 'Q: ...',
\* 'A: ...'.
RecordLines(entry) ==
    <<"",
      PyStr(Get(entry, KEY_SPEAKER, JStr(<<"U", "n", "k", "n", "o", "w", "n">>)))
          \o ":",
      "Q: " \o PyStr(Get(entry, KEY_QUESTION, JStr(<<>>))),
      "A: " \o PyStr(Get(entry, KEY_ANSWER, JStr(<<>>)))>>

\* part is the block of the interview file at p: the header naming the
\* file, then the 4 lines of each record, in the order of the file.
IsInterviewBlockOf(part, p) ==
    LET items == FileAt(p).v.items
    IN  /\ Len(part) = 1 + 4 * Len(items)
        /\ part[1] = "=== Interview File: " \o Str(Basename(p)) \o " ==="
        /\ \A r \in 1..Len(items) :
              SubSeq(part, 4 * r - 2, 4 * r + 1) = RecordLines(items[r])

\* The lines of the Context from `from` on are the blocks parts[k..],
\* each two separated by one blank line.
RECURSIVE BlocksFrom(_, _, _)
BlocksFrom(text, parts, k) ==
    IF k > Len(parts) THEN text = <<>>
    ELSE /\ Len(text) >= Len(parts[k])
         /\ SubSeq(text, 1, Len(parts[k])) = parts[k]
         /\ IF k = Len(parts) THEN Len(text) = Len(parts[k])
            ELSE /\ Len(text) > Len(parts[k])
                 /\ text[Len(parts[k]) + 1] = ""
                 /\ BlocksFrom(SubSeq(text, Len(parts[k]) + 2, Len(text)),
                               parts, k + 1)

\* Every entry of the directory is a *.json file, not hidden, that holds a
\* list of mappings.
OnlyValidInterviewFiles ==
    /\ DOMAIN fs # {}
    /\ \A n \in DOMAIN fs :
          /\ EndsWith(n, EXT_JSON)
          /\ Head(n) # "."
          /\ IsValidInterviewFile(fs[n])

UnknownShape(f) ==
    f.k = "json" /\ ~IsInterviewFile(f) /\ ~IsSurveyFile(f)

\* C4: a file whose JSON root is neither a sequence nor a mapping with one
\* of the two survey keys adds no block, no header naming it is in the
\* Context, and the Context is the one of the directory without the file.
C4_UnknownShapeContributesNothing ==
    pc = "serving" =>
        \A n \in DOMAIN fs :
            UnknownShape(fs[n]) =>
                LET without == load_context(Without(fs, n), cwd)
                IN  /\ load.value = without.value
                    /\ Len(load.parts) = Len(without.parts)
                    /\ \A i \in 1..Len(load.value) :
                          load.value[i] \notin
                              {InterviewHeader(PathJoin(cwd, n))[1],
                               SurveyHeader(PathJoin(cwd, n))[1]}

\* A mapping of unknown shape is opened next to a file that contributes.
C4_Witness ==
    /\ pc = "serving"
    /\ N_A \in DOMAIN fs /\ fs[N_A] = JsonFile(D_UNKNOWN)
    /\ PathJoin(cwd, N_A) \in load.opened
    /\ Len(load.parts) = 1
    /\ load.parts[1] # EmptyStr

\* C5: package-lock.json is never opened and the Context is the one of the
\* directory without it, whatever the file holds.
C5_PackageLockExcluded ==
    (pc = "serving" /\ N_PACKAGE_LOCK \in DOMAIN fs) =>
        /\ PathJoin(cwd, N_PACKAGE_LOCK) \notin load.opened
        /\ load.value = load_context(Without(fs, N_PACKAGE_LOCK), cwd).value

\* package-lock.json holds a survey document and sits next to a data file
\* that contributes its block.
C5_Witness ==
    /\ pc = "serving"
    /\ cwd = DIR_D
    /\ N_PACKAGE_LOCK \in DOMAIN fs
    /\ fs[N_PACKAGE_LOCK] = JsonFile(D_SURVEY)
    /\ N_B \in DOMAIN fs
    /\ load.parts = <<RenderedBlock(PathJoin(cwd, N_B))>>
    /\ load.parts[1] # EmptyStr

\* C10: a discovered file is excluded exactly when its name contains
\* 'package' or 'lock', whatever the root directory is.
C10_ExclusionByNameOnly ==
    pc = "serving" =>
        \A i \in 1..Len(load.json_paths) :
            LET p == load.json_paths[i]
            IN  (p \notin load.opened) <=>
                    (Contains(PACKAGE, Basename(p)) \/ Contains(LOCK, Basename(p)))

\* ------------------------------------------- the renderers called directly
RenderPath == PathJoin(DIR_D, N_A)

CallLoadAndParseJson ==
    /\ pc = "call"
    /\ ret' = [fn |-> "load_and_parse_json", path |-> RenderPath,
               value |-> load_and_parse_json(fs, RenderPath)]
    /\ pc' = "returned"
    /\ UNCHANGED <<cwd, fs, client, FULL_INTERVIEW_CONTEXT, SYSTEM_INSTRUCTION,
                   load, calls, inflight, replies>>

CallLoadSurveyJson ==
    /\ pc = "call"
    /\ ret' = [fn |-> "load_survey_json", path |-> RenderPath,
               value |-> load_survey_json(fs, RenderPath)]
    /\ pc' = "returned"
    /\ UNCHANGED <<cwd, fs, client, FULL_INTERVIEW_CONTEXT, SYSTEM_INSTRUCTION,
                   load, calls, inflight, replies>>

\* Sequences of at most n elements of S.
SeqsUpTo(S, n) == UNION {[1..k -> S] : k \in 0..n}
\* Those without a repeated first component (a mapping has each key once).
Mappings(keys, values, n) ==
    {m \in SeqsUpTo(keys \X values, n) :
        \A i, j \in 1..Len(m) : i # j => m[i][1] # m[j][1]}

\* Interview records: every subset of the three keys, and elements that are
\* not mappings.
RecordKeys == {KEY_SPEAKER, KEY_QUESTION, KEY_ANSWER}
RecordValue(key) ==
    IF key = KEY_SPEAKER THEN JStr(S_A)
    ELSE IF key = KEY_QUESTION THEN JStr(S_WHY)
    ELSE JStr(S_OK)
RecordOf(keys) == JObj([i \in 1..Len(keys) |-> <<keys[i], RecordValue(keys[i])>>])
Records ==
    {RecordOf(Sorted(K)) : K \in SUBSET RecordKeys}
    \cup {JObj(<< <<KEY_SPEAKER, JNull>>, <<KEY_ANSWER, JNum(1)>> >>)}
NonRecords == {JNum(1), JStr(S_OK), JNull, JArr(<<>>)}
InterviewDocs == {JArr(items) : items \in SeqsUpTo(Records \cup NonRecords, MaxRecords)}

\* Survey documents: either key absent, a mapping, or not a mapping, in
\* both key orders.
S_AB == <<"a", "b">>
S_Z1 == <<"z", "1">>
SectionNames == {S_AGE, S_AB, S_Z1}
SectionValues == {JNum(10), JObj(<< <<S_18_25, JNum(10)>> >>)}
SummaryValues ==
    {JObj(m) : m \in Mappings(SectionNames, SectionValues, MaxSections)}
    \cup {JArr(<<JNum(1)>>)}
InsightValues ==
    {JObj(m) : m \in Mappings({S_WHY, S_A}, {JStr(S_OK), JNull}, 1)}
    \cup {JObj(<< <<S_WHY, JStr(S_OK)>>, <<S_A, JNum(1)>> >>), JStr(S_OK)}
SurveyDocs ==
    {JObj(<< <<KEY_SURVEY_SUMMARY, a>> >>) : a \in SummaryValues}
    \cup {JObj(<< <<KEY_FREE_TEXT_INSIGHTS, b>> >>) : b \in InsightValues}
    \cup {JObj(<< <<KEY_SURVEY_SUMMARY, a>>, <<KEY_FREE_TEXT_INSIGHTS, b>> >>) :
            a \in SummaryValues, b \in InsightValues}
    \cup {JObj(<< <<KEY_FREE_TEXT_INSIGHTS, b>>, <<S_AGE, JNum(1)>>,
                  <<KEY_SURVEY_SUMMARY, a>> >>) :
            a \in SummaryValues, b \in InsightValues}
OtherDocs ==
    {JNull, JNum(1), JBool(TRUE), JStr(S_OK), JStr(KEY_SURVEY_SUMMARY),
     JArr(<<JStr(KEY_FREE_TEXT_INSIGHTS)>>), D_UNKNOWN, JObj(<<>>)}

RenderFiles ==
    {Unreadable, Malformed}
    \cup {JsonFile(v) : v \in InterviewDocs \cup SurveyDocs \cup OtherDocs}

InitRender ==
    /\ cwd = DIR_D
    /\ fs \in {(N_A :> f) : f \in RenderFiles}
    /\ pc = "call"
    /\ client = "Client"
    /\ FULL_INTERVIEW_CONTEXT = EmptyStr
    /\ SYSTEM_INSTRUCTION = EmptyStr
    /\ load = NoLoad
    /\ ret = NoRet
    /\ calls = <<>>
    /\ inflight = {}
    /\ replies = <<>>

NextRender == CallLoadAndParseJson \/ CallLoadSurveyJson
SpecRender == InitRender /\ [][NextRender]_vars

\* =================================================== claims: the renderers
\* C6: load_and_parse_json on a list never fails; it renders every element
\* that is a mapping, in order, with 'Unknown' for a missing speaker and the
\* empty string for a missing question or answer, and renders nothing for an
\* element that is not a mapping.
C6_MissingFieldsDefaulted ==
    (/\ pc = "returned"
     /\ ret.fn = "load_and_parse_json"
     /\ IsInterviewFile(fs[N_A])) =>
        LET recs == SelectSeq(fs[N_A].v.items, LAMBDA e : e.t = "obj")
            out == ret.value
        IN  /\ out # EmptyStr
            /\ Len(out) = 1 + 4 * Len(recs)
            /\ out[1] = "=== Interview File: a.json ==="
            /\ \A r \in 1..Len(recs) :
                  /\ out[4 * r - 2] = ""
                  /\ out[4 * r - 1] =
                        (IF HasKey(recs[r], KEY_SPEAKER)
                         THEN PyStr(Lookup(recs[r], KEY_SPEAKER))
                         ELSE "Unknown") \o ":"
                  /\ out[4 * r] =
                        "Q: " \o (IF HasKey(recs[r], KEY_QUESTION)
                                  THEN PyStr(Lookup(recs[r], KEY_QUESTION))
                                  ELSE "")
                  /\ out[4 * r + 1] =
                        "A: " \o (IF HasKey(recs[r], KEY_ANSWER)
                                  THEN PyStr(Lookup(recs[r], KEY_ANSWER))
                                  ELSE "")

\* An element that is not a mapping, then a record with only an answer.
C6_Witness ==
    /\ pc = "returned"
    /\ ret.fn = "load_and_parse_json"
    /\ fs[N_A] = JsonFile(JArr(<<JNum(1), E_NO_SPEAKER>>))
    /\ ret.value = <<"=== Interview File: a.json ===", "", "Unknown:", "Q: ", "A: ok">>

\* The indices of `line` in a Text.
Positions(text, line) == {i \in 1..Len(text) : text[i] = line}

\* The upper-case spelling of the section names of the inputs.
UpperSpelling == (S_AGE :> "AGE") @@ (S_AB :> "AB") @@ (S_Z1 :> "Z1")

RECURSIVE SectionLineCount(_)
SectionLineCount(kv) ==
    IF kv = <<>> THEN 0
    ELSE 2 + Len(Dumps(Head(kv)[2], 0)) + SectionLineCount(Tail(kv))

IsWellFormedSurveyFile(f) ==
    /\ f.k = "json"
    /\ f.v.t = "obj"
    /\ (HasKey(f.v, KEY_SURVEY_SUMMARY) =>
            Lookup(f.v, KEY_SURVEY_SUMMARY).t = "obj")
    /\ (HasKey(f.v, KEY_FREE_TEXT_INSIGHTS) =>
            Lookup(f.v, KEY_FREE_TEXT_INSIGHTS).t = "obj")

\* C9: for a survey document whose two sections, where present, are
\* mappings, load_survey_json returns the header, then (only if
\* survey_summary is present) its marker and per section, in key order, the
\* '[SECTION]' line and the pretty-printed value, then (only if
\* free_text_insights is present) its marker and per key, in key order, the
\* 'Q:' / 'Summary:' pair; the summary part precedes the insights part
\* whatever the order of the two keys in the file.
C9_SurveyBlockLayout ==
    (/\ pc = "returned"
     /\ ret.fn = "load_survey_json"
     /\ IsWellFormedSurveyFile(fs[N_A])) =>
        LET d == fs[N_A].v
            out == ret.value
            hasS == HasKey(d, KEY_SURVEY_SUMMARY)
            hasI == HasKey(d, KEY_FREE_TEXT_INSIGHTS)
            secs == IF hasS THEN Lookup(d, KEY_SURVEY_SUMMARY).kv ELSE <<>>
            ins == IF hasI THEN Lookup(d, KEY_FREE_TEXT_INSIGHTS).kv ELSE <<>>
            posS == Positions(out, "--- SURVEY SUMMARY ---")
            posI == Positions(out, "--- FREE TEXT INSIGHTS ---")
            secLine(i) == "[" \o UpperSpelling[secs[i][1]] \o "]"
            qLine(i) == "Q: " \o Str(ins[i][1])
            endS == IF hasI THEN CHOOSE i \in posI : TRUE ELSE Len(out) + 1
        IN  /\ out[1] = "=== Survey Analytics File: a.json ==="
            /\ Cardinality(posS) = (IF hasS THEN 1 ELSE 0)
            /\ Cardinality(posI) = (IF hasI THEN 1 ELSE 0)
            /\ Len(out) = 1 + (IF hasS THEN 2 + SectionLineCount(secs) ELSE 0)
                            + (IF hasI THEN 2 + 3 * Len(ins) ELSE 0)
            /\ hasS => posS = {3} /\ out[2] = ""
            /\ hasI => \A i \in posI : out[i - 1] = "" /\ i > 2
            /\ (hasS /\ hasI) => \A i \in posS, j \in posI : i < j
            /\ \A k \in 1..Len(secs) :
                  \E i \in 4..(endS - 1) :
                     /\ Positions(out, secLine(k)) = {i}
                     /\ out[i - 1] = ""
                     /\ SubSeq(out, i + 1, i + Len(Dumps(secs[k][2], 0)))
                           = Dumps(secs[k][2], 0)
                     /\ \A k2 \in 1..Len(secs) :
                           k < k2 => \A i2 \in Positions(out, secLine(k2)) : i < i2
            /\ \A k \in 1..Len(ins) :
                  LET i == (CHOOSE j \in posI : TRUE) + 3 * k - 1
                  IN  /\ out[i - 1] = ""
                      /\ out[i] = qLine(k)
                      /\ out[i + 1] = "Summary: " \o PyStr(ins[k][2])

\* free_text_insights comes first in the file, survey_summary has two
\* sections: the summary part is still rendered first.
C9_Witness ==
    /\ pc = "returned"
    /\ ret.fn = "load_survey_json"
    /\ IsWellFormedSurveyFile(fs[N_A])
    /\ Len(fs[N_A].v.kv) = 3
    /\ fs[N_A].v.kv[1][1] = KEY_FREE_TEXT_INSIGHTS
    /\ Len(fs[N_A].v.kv[1][2].kv) = 2
    /\ HasKey(fs[N_A].v, KEY_SURVEY_SUMMARY)
    /\ Len(Lookup(fs[N_A].v, KEY_SURVEY_SUMMARY).kv) = 2
    /\ ret.value[3] = "--- SURVEY SUMMARY ---"
    /\ ret.value[Len(ret.value)] = "Summary: 1"

\* ------------------------------------------------------ the web process
MODEL_NAME == "gemini-1.5-flash"

\* Lines 18-30: client stays None when GOOGLE_API_KEY is missing or the
\* constructor raises.
InitClient ==
    /\ pc = "import"
    /\ \E outcome \in {"no_key", "constructed", "constructor_raises"} :
          client' = IF outcome = "constructed" THEN "Client" ELSE "None"
    /\ pc' = "load"
    /\ UNCHANGED <<cwd, fs, FULL_INTERVIEW_CONTEXT, SYSTEM_INSTRUCTION,
                   load, ret, calls, inflight, replies>>

KEY_MESSAGE == <<"m", "e", "s", "s", "a", "g", "e">>

\* A request body: k = "notjson" (request.json raises) or "json" with the
\* parsed value v.
NotJsonBody == [k |-> "notjson", v |-> JNull]
JsonBody(v) == [k |-> "json", v |-> v]

\* bool(v) of a value json.load returned.
Truthy(v) ==
    CASE v.t = "null" -> FALSE
      [] v.t = "bool" -> v.b
      [] v.t = "num" -> v.n # 0
      [] v.t = "str" -> v.s # <<>>
      [] v.t = "arr" -> v.items # <<>>
      [] v.t = "obj" -> v.kv # <<>>

\* `user_query is None`: the mutation of MessageMissing.
MessageIsNone(user_query) == user_query.t = "null"
\* if not user_query:
MessageMissing(user_query) == ~Truthy(user_query)

\* The same prompt rebuilt from the directory at request time: the mutation
\* of ConfigSystemInstruction.
SystemInstructionReloaded(global, fsys, directory) ==
    SystemInstructionOf(load_context(fsys, directory).value)
\* system_instruction=SYSTEM_INSTRUCTION: the module global, as it is.
ConfigSystemInstruction(global, fsys, directory) == global

\* jsonify({field: value}), status: the reply, with the generate_content
\* calls (0 or 1) the request made.
Reply(status, field, value, called) ==
    [status |-> status, fields |-> {field},
     body |-> "{\"" \o field \o "\": " \o value \o "}", called |-> called]

\* chat(): the reply to one POST /chat with body `body`, when the
\* completion service answers `outcome` if it is called.
chat(cl, system_instruction, body, outcome) ==
    LET user_data == body.v
        user_query == Get(user_data, KEY_MESSAGE, JNull)
        call == [model |-> MODEL_NAME,
                 system_instruction |-> system_instruction,
                 temperature |-> "0.2",
                 contents |-> <<user_query>>]
    IN  IF cl = "None"
        THEN Reply(500, "error",
                   "\"Backend Configuration Error: Google API Key is missing or invalid on the server.\"",
                   <<>>)
        ELSE IF body.k # "json"
        THEN Reply(500, "error", "\"request.json raised\"", <<>>)
        ELSE IF user_data.t # "obj"
        THEN Reply(500, "error", "\"object has no attribute 'get'\"", <<>>)
        ELSE IF MessageMissing(user_query)
        THEN Reply(400, "error", "\"No message provided\"", <<>>)
        ELSE IF outcome.exc
        THEN Reply(500, "error", "\"generate_content raised\"", <<call>>)
        ELSE Reply(200, "response", Dumps(outcome.text, 0)[1], <<call>>)

Bodies ==
    {NotJsonBody, JsonBody(JNull), JsonBody(JArr(<<>>)), JsonBody(JObj(<<>>)),
     JsonBody(JObj(<< <<KEY_MESSAGE, JStr(<<>>)>> >>)),
     JsonBody(JObj(<< <<KEY_MESSAGE, JNull>> >>)),
     JsonBody(JObj(<< <<KEY_MESSAGE, JStr(S_WHY)>> >>))}
Outcomes ==
    {[exc |-> TRUE, text |-> JNull], [exc |-> FALSE, text |-> JStr(S_OK)],
     [exc |-> FALSE, text |-> JNull]}

\* What a reply records as the service's answer when it was not called.
NotCalled == [exc |-> FALSE, text |-> JNull]

\* The replies and calls are recorded with the number of the request they
\* belong to: requests are numbered in the order they arrive.
Arrived == Len(replies) + Cardinality(inflight)

Sent(rid, route, body, outcome, r) ==
    [rid |-> rid, route |-> route, request |-> body, outcome |-> outcome,
     status |-> r.status, fields |-> r.fields, body |-> r.body]

\* POST /chat arrives: chat() runs to its return when it replies without
\* calling the service, and otherwise up to the generate_content call,
\* where the request waits for the service.
ChatBegin ==
    /\ pc = "serving"
    /\ Arrived < MaxRequests
    /\ \E body \in Bodies :
          LET r == chat(client,
                        ConfigSystemInstruction(SYSTEM_INSTRUCTION, fs, cwd),
                        body, NotCalled)
              rid == Arrived + 1
          IN  IF r.called = <<>>
              THEN /\ replies' = Append(replies,
                                        Sent(rid, "/chat", body, NotCalled, r))
                   /\ UNCHANGED <<calls, inflight>>
              ELSE /\ calls' = Append(calls, [rid |-> rid, call |-> r.called[1]])
                   /\ inflight' = inflight \cup
                          {[rid |-> rid, body |-> body,
                            system_instruction |-> r.called[1].system_instruction]}
                   /\ UNCHANGED replies
    /\ UNCHANGED <<cwd, fs, pc, client, FULL_INTERVIEW_CONTEXT,
                   SYSTEM_INSTRUCTION, load, ret>>

\* generate_content returns or raises: chat() runs from there to its return.
ChatEnd ==
    /\ pc = "serving"
    /\ \E req \in inflight, outcome \in Outcomes :
          /\ replies' = Append(replies,
                               Sent(req.rid, "/chat", req.body, outcome,
                                    chat(client, req.system_instruction,
                                         req.body, outcome)))
          /\ inflight' = inflight \ {req}
    /\ UNCHANGED <<cwd, fs, pc, client, FULL_INTERVIEW_CONTEXT,
                   SYSTEM_INSTRUCTION, load, ret, calls>>

\* GET /
Home ==
    /\ pc = "serving"
    /\ Arrived < MaxRequests
    /\ replies' = Append(replies,
                         [rid |-> Arrived + 1, route |-> "/",
                          request |-> NotJsonBody, outcome |-> NotCalled,
                          status |-> 200, fields |-> {},
                          body |-> "Gemini RAG Server is Running!"])
    /\ UNCHANGED <<cwd, fs, pc, client, FULL_INTERVIEW_CONTEXT,
                   SYSTEM_INSTRUCTION, load, ret, calls, inflight>>

ServiceNames == {N_A}
ServiceContents ==
    {JsonFile(JArr(<<E_FULL>>)), JsonFile(D_SURVEY), Malformed}

\* The environment writes, replaces or deletes a corpus file while the
\* process serves.
CorpusChange ==
    /\ pc = "serving"
    /\ \E n \in ServiceNames :
          \/ /\ n \in DOMAIN fs
             /\ fs' = Without(fs, n)
          \/ \E f \in ServiceContents :
                /\ (n \in DOMAIN fs => fs[n] # f)
                /\ fs' = [m \in DOMAIN fs \cup {n} |-> IF m = n THEN f ELSE fs[m]]
    /\ UNCHANGED <<cwd, pc, client, FULL_INTERVIEW_CONTEXT, SYSTEM_INSTRUCTION,
                   load, ret, calls, inflight, replies>>

Init ==
    /\ cwd = DIR_D
    /\ fs \in Corpora(ServiceNames, ServiceContents)
    /\ pc = "import"
    /\ client = "None"
    /\ FULL_INTERVIEW_CONTEXT = EmptyStr
    /\ SYSTEM_INSTRUCTION = EmptyStr
    /\ load = NoLoad
    /\ ret = NoRet
    /\ calls = <<>>
    /\ inflight = {}
    /\ replies = <<>>

Next ==
    InitClient \/ Startup \/ ChatBegin \/ ChatEnd \/ Home \/ CorpusChange
Spec == Init /\ [][Next]_vars

\* ================================================ claims: the web process
IsJsonObject(body) == body.k = "json" /\ body.v.t = "obj"
HasMessage(body) ==
    /\ HasKey(body.v, KEY_MESSAGE)
    /\ Lookup(body.v, KEY_MESSAGE) \notin {JNull, JStr(<<>>)}

\* The generate_content calls request rid has made.
CallsOf(rid) == {i \in 1..Len(calls) : calls[i].rid = rid}

\* C7: every POST /chat gets exactly one reply, either a 'response' field
\* with status 200 or an 'error' field with status 400 or 500: 500 without
\* a client, else 500 for a body that is no JSON object, else 400 without
\* a non-empty message, else one completion call and 500 if it raises, 200
\* with its text if not; no completion call in the first three cases, and
\* never more than one per request, answered or still waiting.
C7_ChatReplies ==
    /\ \A i, j \in 1..Len(replies) : i # j => replies[i].rid # replies[j].rid
    /\ \A req \in inflight :
          /\ \A i \in 1..Len(replies) : replies[i].rid # req.rid
          /\ Cardinality(CallsOf(req.rid)) = 1
    /\ \A rid \in 1..Arrived :
          \/ \E req \in inflight : req.rid = rid
          \/ \E i \in 1..Len(replies) : replies[i].rid = rid
    /\ \A i \in 1..Len(replies) :
          LET r == replies[i]
              ncalls == Cardinality(CallsOf(r.rid))
          IN  r.route = "/chat" =>
                /\ \/ r.fields = {"response"} /\ r.status = 200
                   \/ r.fields = {"error"} /\ r.status \in {400, 500}
                /\ ncalls <= 1
                /\ IF client = "None" THEN r.status = 500 /\ ncalls = 0
                   ELSE IF ~IsJsonObject(r.request)
                   THEN r.status = 500 /\ ncalls = 0
                   ELSE IF ~HasMessage(r.request)
                   THEN r.status = 400 /\ ncalls = 0
                   ELSE IF r.outcome.exc THEN r.status = 500 /\ ncalls = 1
                   ELSE /\ r.status = 200 /\ ncalls = 1
                        /\ r.body = "{\"response\": "
                                      \o Dumps(r.outcome.text, 0)[1] \o "}"

\* A request waits for the service while a second one, with an empty
\* message, is answered 400; then the first is answered with the text.
C7_Witness ==
    /\ client = "Client"
    /\ inflight = {}
    /\ Len(replies) = 2
    /\ replies[1].rid = 2
    /\ replies[1].request = JsonBody(JObj(<< <<KEY_MESSAGE, JStr(<<>>)>> >>))
    /\ replies[1].status = 400
    /\ replies[2].rid = 1
    /\ replies[2].status = 200
    /\ replies[2].body = "{\"response\": \"ok\"}"
    /\ Len(calls) = 1

\* C8: no request is handled before start-up has built the Context; from
\* then on the Context is the one load_context returned at start-up, the
\* system prompt embeds it verbatim between its two markers, and every
\* completion call carries that same prompt, whatever has happened to the
\* corpus files since.
C8_ContextBuiltOnce ==
    /\ (replies # <<>> \/ inflight # {} \/ calls # <<>>) => pc = "serving"
    /\ pc = "serving" =>
          LET n == Len(FULL_INTERVIEW_CONTEXT)
          IN  /\ load.returned
              /\ FULL_INTERVIEW_CONTEXT = load.value
              /\ Len(SYSTEM_INSTRUCTION) = Len(PROMPT_HEAD) + n + 1
              /\ SubSeq(SYSTEM_INSTRUCTION, 1, Len(PROMPT_HEAD) - 1)
                    = SubSeq(PROMPT_HEAD, 1, Len(PROMPT_HEAD) - 1)
              /\ SubSeq(SYSTEM_INSTRUCTION, Len(PROMPT_HEAD),
                        Len(PROMPT_HEAD) + n - 1) = FULL_INTERVIEW_CONTEXT
              /\ SubSeq(SYSTEM_INSTRUCTION, Len(PROMPT_HEAD) + n,
                        Len(PROMPT_HEAD) + n + 1)
                    = <<"--- INTERVIEW CONTEXT END ---", "">>
              /\ \A i \in 1..Len(calls) :
                    calls[i].call.system_instruction = SYSTEM_INSTRUCTION

\* Two completion calls have been made and the corpus on disk no longer
\* renders to the Context built at start-up.
C8_Witness ==
    /\ pc = "serving"
    /\ Len(calls) = 2
    /\ FULL_INTERVIEW_CONTEXT # EmptyStr
    /\ load_context(fs, cwd).value # FULL_INTERVIEW_CONTEXT

====
